---- MODULE Spec2Model ----
(***************************************************************************)
(* Model of src/queries/find_many.rs: the FindMany query builder, its      *)
(* BatchQuery adapter and the standalone ManyArgs container.               *)
(*                                                                         *)
(* One builder value is constructed in Init (FindMany::new or              *)
(* ManyArgs::new), parameters are accumulated by the consuming builder     *)
(* methods, and one finalization consumes it.  After a finalization the    *)
(* variable self keeps the value that was moved into the finalizer, so     *)
(* that the properties can relate the output to the input.                 *)
(***************************************************************************)
EXTENDS Integers, Sequences, FiniteSets, TLC

VARIABLES kind, phase, self, out, dispatched, returned, engineOutcome,
          lastSkip, lastTake, projection, rawResult, converted

vars == <<kind, phase, self, out, dispatched, returned, engineOutcome,
          lastSkip, lastTake, projection, rawResult, converted>>

(* ---------------- bounds and input domains ---------------- *)

\* total number of list parameters (where + with + order_by + cursor) of one builder
MaxParams == 3

Fields == {"age", "name"}
IntValues == {18, 21}
SkipTakeValues == {0, 5}
Contexts == {"ctxA"}
WithParams == {"posts", "profile"}
SetParams == {<<>>, <<[field |-> "age", value |-> 21]>>}
EngineOutcomes == {<<"Ok", "rows">>, <<"Err", "engine error">>}

\* a caller-side Where / OrderBy / Cursor item: a field and an integer
ParamItems == [field : Fields, value : IntValues]

RECURSIVE SeqsUpTo(_, _)
SeqsUpTo(S, n) ==
    IF n = 0 THEN {<<>>}
    ELSE LET shorter == SeqsUpTo(S, n - 1)
         IN  shorter \cup {Append(s, x) : s \in {t \in shorter : Len(t) = n - 1}, x \in S}

MapSeq(Op(_), s) == [i \in 1..Len(s) |-> Op(s[i])]

(* ---------------- values ---------------- *)

None == <<>>
Some(x) == <<x>>

PrismaInt(n) == [tag |-> "PrismaValue::Int", v |-> n]
PrismaObject(pairs) == [tag |-> "PrismaValue::Object", v |-> pairs]
QueryInt(n) == [tag |-> "QueryValue::Int", v |-> n]
QueryObject(map) == [tag |-> "QueryValue::Object", v |-> map]

\* insertion into an ordered mapping: an existing key keeps its position and
\* takes the new value, a new key is appended
MapInsert(map, k, v) ==
    IF \E i \in 1..Len(map) : map[i][1] = k
    THEN [i \in 1..Len(map) |-> IF map[i][1] = k THEN <<k, v>> ELSE map[i]]
    ELSE Append(map, <<k, v>>)

RECURSIVE MapCollect(_, _)
MapCollect(map, pairs) ==
    IF pairs = <<>> THEN map
    ELSE MapCollect(MapInsert(map, Head(pairs)[1], Head(pairs)[2]), Tail(pairs))

\* From<PrismaValue> for QueryValue: an Object's pairs are collected into the
\* ordered mapping of QueryValue::Object, each value converted in turn
ScalarToQueryValue(pv) == QueryInt(pv.v)

ToQueryValue(pv) ==
    IF pv.tag = "PrismaValue::Int" THEN QueryInt(pv.v)
    ELSE QueryObject(MapCollect(<<>>,
            [i \in 1..Len(pv.v) |-> <<pv.v[i][1], ScalarToQueryValue(pv.v[i][2])>>]))

\* crate::merged_object: one Object from the where pairs, left to right, a
\* repeated key overwriting the value in place
RECURSIVE merge_fields(_, _)
merge_fields(acc, elements) ==
    IF elements = <<>> THEN acc
    ELSE LET el == Head(elements)
             hit == {i \in 1..Len(acc) : acc[i][1] = el[1]}
         IN  merge_fields(
                 IF hit = {} THEN acc \o <<el>>
                 ELSE [i \in 1..Len(acc) |-> IF i \in hit THEN el ELSE acc[i]],
                 Tail(elements))

merged_object(elements) == PrismaObject(merge_fields(<<>>, elements))

\* the caller-supplied conversions Into<SerializedWhere>, Into<(String, PrismaValue)>
\* and Into<Selection>
WhereToSerialized(w) == [field |-> w.field, value |-> PrismaInt(w.value)]
SerializedToPair(s) == <<s.field, s.value>>
ParamToPair(p) == <<p.field, PrismaInt(p.value)>>

(* ---------------- selections ---------------- *)

Selection_builder(name) ==
    [name |-> name, alias |-> None, arguments |-> <<>>, nested_selections |-> <<>>]

alias(sel, a) == [sel EXCEPT !.alias = Some(a)]

push_argument(sel, name, value) ==
    [sel EXCEPT !.arguments = Append(@, <<name, ToQueryValue(value)>>)]

nested_selections(sel, children) ==
    [sel EXCEPT !.nested_selections = @ \o children]

build(sel) == sel

Leaf(name) == build(Selection_builder(name))

WithToSelection(w) == Leaf(w)

Read(sel) == [op |-> "Read", selection |-> sel]

Infos ==
    { [model |-> "User", scalar_selections |-> <<Leaf("id"), Leaf("name")>>],
      [model |-> "Post", scalar_selections |-> <<Leaf("id")>>] }

Projections == { <<>>, <<Leaf("name")>>, <<Leaf("name"), Leaf("id")>> }

(* ---------------- FindMany ---------------- *)

FindMany_new(ctx, info, where_params) ==
    [ctx |-> ctx, info |-> info, where_params |-> where_params,
     with_params |-> <<>>, order_by_params |-> <<>>, cursor_params |-> <<>>,
     skip |-> None, take |-> None]

\* mutant: a zero skip/take is treated as unset
PushOption_DropsZero(sel, name, opt) ==
    IF opt = None \/ opt[1] = 0 THEN sel ELSE push_argument(sel, name, PrismaInt(opt[1]))

PushOption(sel, name, opt) ==
    IF opt = None THEN sel ELSE push_argument(sel, name, PrismaInt(opt[1]))

Reverse(s) == [i \in 1..Len(s) |-> s[Len(s) + 1 - i]]

\* mutant: the where items are merged in reverse call order
push_where_Reversed(sel, where_params) ==
    IF Len(where_params) > 0
    THEN push_argument(sel, "where",
             merged_object(MapSeq(SerializedToPair,
                                  MapSeq(WhereToSerialized, Reverse(where_params)))))
    ELSE sel

push_where(sel, where_params) ==
    IF Len(where_params) > 0
    THEN push_argument(sel, "where",
             merged_object(MapSeq(SerializedToPair,
                                  MapSeq(WhereToSerialized, where_params))))
    ELSE sel

\* mutant: the orderBy argument is pushed without the emptiness guard
push_order_by_Unguarded(sel, order_by_params) ==
    push_argument(sel, "orderBy", PrismaObject(MapSeq(ParamToPair, order_by_params)))

\* mutant: only the first order-by item is serialized
push_order_by_FirstOnly(sel, order_by_params) ==
    IF Len(order_by_params) > 0
    THEN push_argument(sel, "orderBy",
             PrismaObject(MapSeq(ParamToPair, <<Head(order_by_params)>>)))
    ELSE sel

push_order_by(sel, order_by_params) ==
    IF Len(order_by_params) > 0
    THEN push_argument(sel, "orderBy", PrismaObject(MapSeq(ParamToPair, order_by_params)))
    ELSE sel

push_cursor(sel, cursor_params) ==
    IF Len(cursor_params) > 0
    THEN push_argument(sel, "cursor", PrismaObject(MapSeq(ParamToPair, cursor_params)))
    ELSE sel

\* mutant: the alias is derived from the model name
to_selection_AliasModel(model, where_params, order_by_params, cursor_params, skip, take) ==
    LET s0 == alias(Selection_builder("findMany" \o model), model)
        s1 == push_where(s0, where_params)
        s2 == push_order_by(s1, order_by_params)
        s3 == push_cursor(s2, cursor_params)
        s4 == PushOption(s3, "skip", skip)
        s5 == PushOption(s4, "take", take)
    IN  s5

to_selection(model, where_params, order_by_params, cursor_params, skip, take) ==
    LET s0 == alias(Selection_builder("findMany" \o model), "result")
        s1 == push_where(s0, where_params)
        s2 == push_order_by(s1, order_by_params)
        s3 == push_cursor(s2, cursor_params)
        s4 == PushOption(s3, "skip", skip)
        s5 == PushOption(s4, "take", take)
    IN  s5

\* FindMany::select: the operation and the context handed to Select::new
select(b, to_selections) ==
    LET selection == to_selection(b.info.model, b.where_params, b.order_by_params,
                                  b.cursor_params, b.skip, b.take)
    IN  [ctx |-> b.ctx,
         op |-> Read(build(nested_selections(selection, to_selections)))]

\* mutant: the `with` selections are placed before the scalar selections
exec_operation_WithFirst(b) ==
    LET selection == to_selection(b.info.model, b.where_params, b.order_by_params,
                                  b.cursor_params, b.skip, b.take)
        scalar_selections ==
            IF Len(b.with_params) > 0
            THEN MapSeq(WithToSelection, b.with_params) \o b.info.scalar_selections
            ELSE b.info.scalar_selections
    IN  <<Read(build(nested_selections(selection, scalar_selections))), b.ctx>>

exec_operation(b) ==
    LET selection == to_selection(b.info.model, b.where_params, b.order_by_params,
                                  b.cursor_params, b.skip, b.take)
        scalar_selections ==
            IF Len(b.with_params) > 0
            THEN b.info.scalar_selections \o MapSeq(WithToSelection, b.with_params)
            ELSE b.info.scalar_selections
    IN  <<Read(build(nested_selections(selection, scalar_selections))), b.ctx>>

\* mutant: the batch operation is built without the `with` selections
graphql_NoWith(b) == exec_operation([b EXCEPT !.with_params = <<>>])[1]

graphql(b) == exec_operation(b)[1]

convert(raw) == raw

\* the arguments the target constructors receive
\* mutant: the count builder starts from an empty where list
count_EmptyWhere(b) ==
    [kind |-> "Count", ctx |-> b.ctx, info |-> b.info, where_params |-> <<>>]

count(b) ==
    [kind |-> "Count", ctx |-> b.ctx, info |-> b.info, where_params |-> b.where_params]

update(b, data) ==
    [kind |-> "UpdateMany", ctx |-> b.ctx, info |-> b.info,
     where_params |-> b.where_params, data |-> data]

delete(b) ==
    [kind |-> "DeleteMany", ctx |-> b.ctx, info |-> b.info, where_params |-> b.where_params]

(* ---------------- ManyArgs ---------------- *)

ManyArgs_new(where_params) ==
    [where_params |-> where_params,
     with_params |-> <<>>, order_by_params |-> <<>>, cursor_params |-> <<>>,
     skip |-> None, take |-> None]

\* mutant: take is pushed before skip
to_graphql_TakeFirst(a) ==
    LET nested == IF Len(a.with_params) > 0
                  THEN MapSeq(WithToSelection, a.with_params)
                  ELSE <<>>
        a1 == IF Len(a.where_params) > 0
              THEN <<<<"where",
                       ToQueryValue(PrismaObject(MapSeq(SerializedToPair,
                           MapSeq(WhereToSerialized, a.where_params))))>>>>
              ELSE <<>>
        a2 == IF Len(a.order_by_params) > 0
              THEN Append(a1, <<"orderBy",
                       ToQueryValue(PrismaObject(MapSeq(ParamToPair, a.order_by_params)))>>)
              ELSE a1
        a3 == IF Len(a.cursor_params) > 0
              THEN Append(a2, <<"cursor",
                       ToQueryValue(PrismaObject(MapSeq(ParamToPair, a.cursor_params)))>>)
              ELSE a2
        a4 == IF a.take = None THEN a3 ELSE Append(a3, <<"take", QueryInt(a.take[1])>>)
        a5 == IF a.skip = None THEN a4 ELSE Append(a4, <<"skip", QueryInt(a.skip[1])>>)
    IN  <<a5, nested>>

to_graphql(a) ==
    LET nested == IF Len(a.with_params) > 0
                  THEN MapSeq(WithToSelection, a.with_params)
                  ELSE <<>>
        a1 == IF Len(a.where_params) > 0
              THEN <<<<"where",
                       ToQueryValue(PrismaObject(MapSeq(SerializedToPair,
                           MapSeq(WhereToSerialized, a.where_params))))>>>>
              ELSE <<>>
        a2 == IF Len(a.order_by_params) > 0
              THEN Append(a1, <<"orderBy",
                       ToQueryValue(PrismaObject(MapSeq(ParamToPair, a.order_by_params)))>>)
              ELSE a1
        a3 == IF Len(a.cursor_params) > 0
              THEN Append(a2, <<"cursor",
                       ToQueryValue(PrismaObject(MapSeq(ParamToPair, a.cursor_params)))>>)
              ELSE a2
        a4 == IF a.skip = None THEN a3 ELSE Append(a3, <<"skip", QueryInt(a.skip[1])>>)
        a5 == IF a.take = None THEN a4 ELSE Append(a4, <<"take", QueryInt(a.take[1])>>)
    IN  <<a5, nested>>

(* ---------------- state machine ---------------- *)

NoValue == <<>>

ParamCount(b) ==
    Len(b.where_params) + Len(b.with_params) + Len(b.order_by_params) + Len(b.cursor_params)

Init ==
    /\ kind \in {"FindMany", "ManyArgs"}
    /\ phase = "Accumulating"
    /\ \E where_params \in SeqsUpTo(ParamItems, MaxParams) :
          \/ kind = "FindMany"
             /\ \E ctx \in Contexts, info \in Infos :
                   self = FindMany_new(ctx, info, where_params)
          \/ kind = "ManyArgs"
             /\ self = ManyArgs_new(where_params)
    /\ out = NoValue
    /\ dispatched = <<>>
    /\ returned = NoValue
    /\ engineOutcome = NoValue
    /\ lastSkip = None
    /\ lastTake = None
    /\ projection = NoValue
    /\ rawResult = NoValue
    /\ converted = NoValue

Frame == UNCHANGED <<kind, phase, out, dispatched, returned, engineOutcome,
                     projection, rawResult, converted>>

Accumulating(k) == kind = k /\ phase = "Accumulating"

FindMany_with ==
    /\ Accumulating("FindMany") /\ ParamCount(self) < MaxParams
    /\ \E param \in WithParams : self' = [self EXCEPT !.with_params = Append(@, param)]
    /\ UNCHANGED <<lastSkip, lastTake>> /\ Frame

FindMany_order_by ==
    /\ Accumulating("FindMany") /\ ParamCount(self) < MaxParams
    /\ \E param \in ParamItems : self' = [self EXCEPT !.order_by_params = Append(@, param)]
    /\ UNCHANGED <<lastSkip, lastTake>> /\ Frame

FindMany_cursor ==
    /\ Accumulating("FindMany") /\ ParamCount(self) < MaxParams
    /\ \E param \in ParamItems : self' = [self EXCEPT !.cursor_params = Append(@, param)]
    /\ UNCHANGED <<lastSkip, lastTake>> /\ Frame

FindMany_skip ==
    /\ Accumulating("FindMany")
    /\ \E n \in SkipTakeValues : self' = [self EXCEPT !.skip = Some(n)] /\ lastSkip' = Some(n)
    /\ UNCHANGED lastTake /\ Frame

FindMany_take ==
    /\ Accumulating("FindMany")
    /\ \E n \in SkipTakeValues : self' = [self EXCEPT !.take = Some(n)] /\ lastTake' = Some(n)
    /\ UNCHANGED lastSkip /\ Frame

Finalize(p) ==
    /\ phase' = p
    /\ UNCHANGED <<kind, self, lastSkip, lastTake>>

FindMany_update ==
    /\ Accumulating("FindMany")
    /\ \E data \in SetParams : out' = update(self, data)
    /\ Finalize("Updated")
    /\ UNCHANGED <<dispatched, returned, engineOutcome, projection, rawResult, converted>>

FindMany_delete ==
    /\ Accumulating("FindMany")
    /\ out' = delete(self)
    /\ Finalize("Deleted")
    /\ UNCHANGED <<dispatched, returned, engineOutcome, projection, rawResult, converted>>

FindMany_count ==
    /\ Accumulating("FindMany")
    /\ out' = count(self)
    /\ Finalize("Counted")
    /\ UNCHANGED <<dispatched, returned, engineOutcome, projection, rawResult, converted>>

FindMany_select ==
    /\ Accumulating("FindMany")
    /\ \E to_selections \in Projections :
          /\ out' = select(self, to_selections)
          /\ projection' = to_selections
    /\ Finalize("Selected")
    /\ UNCHANGED <<dispatched, returned, engineOutcome, rawResult, converted>>

\* exec: the operation goes to ctx.execute, whose outcome is the engine's choice
\* mutant: an engine error makes exec dispatch the operation a second time
exec_Retry(b, outcome) ==
    LET r == exec_operation(b)
        d == [op |-> r[1], ctx |-> r[2]]
    IN  [dispatched |-> IF outcome[1] = "Err" THEN <<d, d>> ELSE <<d>>,
         returned |-> outcome]

exec(b, outcome) ==
    LET r == exec_operation(b)
    IN  [dispatched |-> <<[op |-> r[1], ctx |-> r[2]]>>, returned |-> outcome]

FindMany_exec ==
    /\ Accumulating("FindMany")
    /\ \E outcome \in EngineOutcomes :
          LET e == exec(self, outcome)
          IN  /\ dispatched' = dispatched \o e.dispatched
              /\ returned' = e.returned
              /\ engineOutcome' = outcome
    /\ Finalize("Executed")
    /\ UNCHANGED <<out, projection, rawResult, converted>>

FindMany_graphql ==
    /\ Accumulating("FindMany")
    /\ out' = graphql(self)
    /\ Finalize("Extracted")
    /\ UNCHANGED <<dispatched, returned, engineOutcome, projection, rawResult, converted>>

\* BatchQuery::convert applied to the raw result of the batch
FindMany_convert ==
    /\ kind = "FindMany" /\ phase = "Extracted"
    /\ \E raw \in EngineOutcomes :
          /\ rawResult' = raw
          /\ converted' = convert(raw)
    /\ phase' = "Converted"
    /\ UNCHANGED <<kind, self, out, dispatched, returned, engineOutcome,
                   projection, lastSkip, lastTake>>

ManyArgs_with ==
    /\ Accumulating("ManyArgs") /\ ParamCount(self) < MaxParams
    /\ \E param \in WithParams : self' = [self EXCEPT !.with_params = Append(@, param)]
    /\ UNCHANGED <<lastSkip, lastTake>> /\ Frame

ManyArgs_order_by ==
    /\ Accumulating("ManyArgs") /\ ParamCount(self) < MaxParams
    /\ \E param \in ParamItems : self' = [self EXCEPT !.order_by_params = Append(@, param)]
    /\ UNCHANGED <<lastSkip, lastTake>> /\ Frame

ManyArgs_cursor ==
    /\ Accumulating("ManyArgs") /\ ParamCount(self) < MaxParams
    /\ \E param \in ParamItems : self' = [self EXCEPT !.cursor_params = Append(@, param)]
    /\ UNCHANGED <<lastSkip, lastTake>> /\ Frame

ManyArgs_skip ==
    /\ Accumulating("ManyArgs")
    /\ \E n \in SkipTakeValues : self' = [self EXCEPT !.skip = Some(n)] /\ lastSkip' = Some(n)
    /\ UNCHANGED lastTake /\ Frame

ManyArgs_take ==
    /\ Accumulating("ManyArgs")
    /\ \E n \in SkipTakeValues : self' = [self EXCEPT !.take = Some(n)] /\ lastTake' = Some(n)
    /\ UNCHANGED lastSkip /\ Frame

ManyArgs_to_graphql ==
    /\ Accumulating("ManyArgs")
    /\ out' = to_graphql(self)
    /\ Finalize("ArgsBuilt")
    /\ UNCHANGED <<dispatched, returned, engineOutcome, projection, rawResult, converted>>

Next ==
    \/ FindMany_with \/ FindMany_order_by \/ FindMany_cursor
    \/ FindMany_skip \/ FindMany_take
    \/ FindMany_update \/ FindMany_delete \/ FindMany_count
    \/ FindMany_select \/ FindMany_exec \/ FindMany_graphql \/ FindMany_convert
    \/ ManyArgs_with \/ ManyArgs_order_by \/ ManyArgs_cursor
    \/ ManyArgs_skip \/ ManyArgs_take \/ ManyArgs_to_graphql

Spec == Init /\ [][Next]_vars

(* ---------------- properties ---------------- *)

\* the operation a finalized FindMany produced
HasOperation == kind = "FindMany" /\ phase \in {"Executed", "Extracted", "Converted", "Selected"}

FinalOp ==
    IF phase = "Executed" THEN dispatched[1].op
    ELSE IF phase = "Selected" THEN out.op
    ELSE out

FinalSelection == FinalOp.selection

ArgsBuilt == kind = "ManyArgs" /\ phase = "ArgsBuilt"

\* the argument list of whichever finalization happened
FinalArguments == IF ArgsBuilt THEN out[1] ELSE FinalSelection.arguments

Named(args, n) == {i \in 1..Len(args) : args[i][1] = n}

ArgValue(args, n) == args[CHOOSE i \in Named(args, n) : TRUE][2]

FirstIdx(items, f) == CHOOSE i \in 1..Len(items) :
    items[i].field = f /\ \A j \in 1..(i - 1) : items[j].field # f

LastIdx(items, f) == CHOOSE i \in 1..Len(items) :
    items[i].field = f /\ \A j \in (i + 1)..Len(items) : items[j].field # f

\* value is the Object merged from items: one entry per distinct field, in
\* first-occurrence order, carrying the last value given for the field
IsMergeOf(items, value) ==
    /\ value.tag = "QueryValue::Object"
    /\ LET map == value.v
       IN  /\ Len(map) = Cardinality({items[i].field : i \in 1..Len(items)})
           /\ \A m \in 1..Len(map) :
                 /\ \E i \in 1..Len(items) : items[i].field = map[m][1]
                 /\ map[m][2] = [tag |-> "QueryValue::Int",
                                 v |-> items[LastIdx(items, map[m][1])].value]
           /\ \A m, n \in 1..Len(map) :
                 m < n => FirstIdx(items, map[m][1]) < FirstIdx(items, map[n][1])

AgeTwice == <<[field |-> "age", value |-> 18], [field |-> "age", value |-> 21]>>

AgeNameAge == <<[field |-> "age", value |-> 18], [field |-> "name", value |-> 18],
                [field |-> "age", value |-> 21]>>

\* C1: a finalized FindMany with a non-empty where list carries exactly one
\* `where` argument, the Object merged from the where items in call order
\* (first-occurrence key order, last value wins in place).
C1_WhereMerged ==
    (HasOperation /\ Len(self.where_params) > 0) =>
        /\ Cardinality(Named(FinalSelection.arguments, "where")) = 1
        /\ IsMergeOf(self.where_params, ArgValue(FinalSelection.arguments, "where"))
        /\ self.where_params = AgeTwice =>
               ArgValue(FinalSelection.arguments, "where").v
                   = <<<<"age", [tag |-> "QueryValue::Int", v |-> 21]>>>>

C1_Witness ==
    /\ HasOperation
    /\ self.where_params = AgeNameAge
    /\ ArgValue(FinalSelection.arguments, "where").v
           = << <<"age", [tag |-> "QueryValue::Int", v |-> 21]>>,
                <<"name", [tag |-> "QueryValue::Int", v |-> 18]>> >>

ListArgCount(list) == IF Len(list) > 0 THEN 1 ELSE 0

\* C2: where / orderBy / cursor are absent when their list is empty and
\* present exactly once when it is not, for FindMany and for ManyArgs.
C2_ListArgsPresence ==
    (HasOperation \/ ArgsBuilt) =>
        /\ Cardinality(Named(FinalArguments, "where")) = ListArgCount(self.where_params)
        /\ Cardinality(Named(FinalArguments, "orderBy")) = ListArgCount(self.order_by_params)
        /\ Cardinality(Named(FinalArguments, "cursor")) = ListArgCount(self.cursor_params)

C2_Witness ==
    /\ HasOperation
    /\ self.where_params = <<>> /\ self.cursor_params = <<>>
    /\ Len(self.order_by_params) = 2
    /\ Named(FinalArguments, "where") = {}
    /\ Cardinality(Named(FinalArguments, "orderBy")) = 1

OptionArgOk(args, n, last) ==
    IF last = None THEN Named(args, n) = {}
    ELSE /\ Cardinality(Named(args, n)) = 1
         /\ ArgValue(args, n) = [tag |-> "QueryValue::Int", v |-> last[1]]

\* C3: skip (take) is an argument iff skip(n) (take(n)) was called, with the
\* n of the last call; skip(0) gives an explicit `skip: 0`.
C3_SkipTake ==
    HasOperation =>
        /\ OptionArgOk(FinalSelection.arguments, "skip", lastSkip)
        /\ OptionArgOk(FinalSelection.arguments, "take", lastTake)

C3_Witness ==
    /\ HasOperation
    /\ lastSkip = <<0>> /\ lastTake = None
    /\ Cardinality(Named(FinalSelection.arguments, "skip")) = 1
    /\ ArgValue(FinalSelection.arguments, "skip").v = 0

IsTarget == kind = "FindMany" /\ phase \in {"Counted", "Updated", "Deleted"}

\* C4: count / update / delete hand over context, model info and the where
\* list unchanged, and nothing of with / order_by / cursor / skip / take.
C4_Conversion ==
    IsTarget =>
        /\ out.where_params = self.where_params
        /\ out.ctx = self.ctx
        /\ out.info = self.info
        /\ DOMAIN out \subseteq {"kind", "ctx", "info", "where_params", "data"}
        /\ ("data" \in DOMAIN out) <=> phase = "Updated"
        /\ out.kind = CASE phase = "Counted" -> "Count"
                        [] phase = "Updated" -> "UpdateMany"
                        [] phase = "Deleted" -> "DeleteMany"

C4_Witness ==
    /\ IsTarget /\ phase = "Counted"
    /\ Len(self.where_params) = 2 /\ self.where_params[1] # self.where_params[2]
    /\ self.order_by_params # <<>> /\ self.skip # None
    /\ out.where_params = self.where_params

\* C5: children are the default scalar selections followed by the `with`
\* selections on the exec / graphql path, and exactly the projection on the
\* select path.
C5_Children ==
    /\ (kind = "FindMany" /\ phase \in {"Executed", "Extracted", "Converted"}) =>
          LET ch == FinalSelection.nested_selections
              sc == self.info.scalar_selections
          IN  /\ Len(ch) = Len(sc) + Len(self.with_params)
              /\ \A i \in 1..Len(sc) : ch[i] = sc[i]
              /\ \A i \in 1..Len(self.with_params) :
                    /\ ch[Len(sc) + i].name = self.with_params[i]
                    /\ ch[Len(sc) + i].arguments = <<>>
                    /\ ch[Len(sc) + i].nested_selections = <<>>
    /\ (kind = "FindMany" /\ phase = "Selected") =>
          FinalSelection.nested_selections = projection

C5_Witness ==
    /\ kind = "FindMany" /\ phase = "Executed"
    /\ self.info.model = "User"
    /\ self.with_params = <<"posts", "profile">>
    /\ Len(FinalSelection.nested_selections) = 4
    /\ FinalSelection.nested_selections[3].name = "posts"

\* C6: a non-empty order-by (cursor) list gives an `orderBy` (`cursor`)
\* Object with one entry per distinct key, first-occurrence order, last
\* value winning.
C6_OrderCursorMerged ==
    (HasOperation \/ ArgsBuilt) =>
        /\ Len(self.order_by_params) > 0 =>
              /\ Named(FinalArguments, "orderBy") # {}
              /\ IsMergeOf(self.order_by_params, ArgValue(FinalArguments, "orderBy"))
        /\ Len(self.cursor_params) > 0 =>
              /\ Named(FinalArguments, "cursor") # {}
              /\ IsMergeOf(self.cursor_params, ArgValue(FinalArguments, "cursor"))

C6_Witness ==
    /\ HasOperation
    /\ self.order_by_params = AgeNameAge
    /\ ArgValue(FinalArguments, "orderBy").v
           = << <<"age", [tag |-> "QueryValue::Int", v |-> 21]>>,
                <<"name", [tag |-> "QueryValue::Int", v |-> 18]>> >>

\* C7: graphql() dispatches nothing and returns the operation exec() would
\* dispatch for the same builder; every finalization yields a Read.
C7_BatchExtraction ==
    /\ (kind = "FindMany" /\ phase \in {"Extracted", "Converted"}) =>
          /\ dispatched = <<>>
          /\ \A outcome \in EngineOutcomes :
                out = exec(self, outcome).dispatched[1].op
    /\ HasOperation => FinalOp.op = "Read"

C7_Witness ==
    /\ kind = "FindMany" /\ phase = "Extracted"
    /\ self.with_params # <<>> /\ self.where_params # <<>> /\ self.take # None
    /\ out.op = "Read"
    /\ dispatched = <<>>

\* C8: the root selection is named findMany<Model> and aliased "result"
\* whatever the model and the parameters.
C8_NameAlias ==
    HasOperation =>
        /\ FinalSelection.name = "findMany" \o self.info.model
        /\ FinalSelection.alias = <<"result">>

C8_Witness ==
    /\ HasOperation
    /\ self.info.model = "Post"
    /\ FinalSelection.name = "findManyPost"
    /\ FinalSelection.alias = <<"result">>
    /\ self.order_by_params # <<>>

\* C9: exec dispatches exactly once and returns the engine's outcome
\* unchanged; nothing else dispatches; convert returns the raw result.
C9_ExecOnce ==
    /\ phase # "Executed" => (dispatched = <<>> /\ returned = NoValue)
    /\ phase = "Executed" =>
          /\ Len(dispatched) = 1
          /\ dispatched[1].ctx = self.ctx
          /\ returned = engineOutcome
    /\ phase = "Converted" => converted = rawResult

C9_Witness ==
    /\ phase = "Executed"
    /\ engineOutcome = <<"Err", "engine error">>
    /\ returned = <<"Err", "engine error">>
    /\ Len(dispatched) = 1

ArgRank(n) ==
    CASE n = "where" -> 1 [] n = "orderBy" -> 2 [] n = "cursor" -> 3
      [] n = "skip" -> 4 [] n = "take" -> 5 [] OTHER -> 0

\* C10: ManyArgs::to_graphql returns the argument list the FindMany selection
\* carries for the same inputs (order where, orderBy, cursor, skip, take; where
\* merged), and the `with` selections in call order.
C10_ArgsAgree ==
    ArgsBuilt =>
        /\ \A info \in Infos :
              out[1] = to_selection(info.model, self.where_params, self.order_by_params,
                                    self.cursor_params, self.skip, self.take).arguments
        /\ \A i, j \in 1..Len(out[1]) :
              i < j => ArgRank(out[1][i][1]) < ArgRank(out[1][j][1])
        /\ Len(self.where_params) > 0 =>
              IsMergeOf(self.where_params, ArgValue(out[1], "where"))
        /\ Len(out[2]) = Len(self.with_params)
        /\ \A i \in 1..Len(out[2]) :
              /\ out[2][i].name = self.with_params[i]
              /\ out[2][i].arguments = <<>>
              /\ out[2][i].nested_selections = <<>>

C10_Witness ==
    /\ ArgsBuilt
    /\ self.where_params = AgeTwice
    /\ self.with_params = <<"posts">>
    /\ self.skip = <<0>> /\ self.take = <<5>>
    /\ Len(out[1]) = 3
    /\ out[1][1][2].v = <<<<"age", [tag |-> "QueryValue::Int", v |-> 21]>>>>
====
